---- MODULE Spec2Model ----
\* Mergington High School activities API (src/src/app.py): the roster of each
\* activity, the audit log with its retention purge, the token/role gate, and
\* the request handlers that compose them.
\*
\* Time is counted in whole days: a timestamp is the day index on which the row
\* was written, `now` is the current day, and the retention period is a number
\* of days, so that `timestamp < now - AUDIT_LOG_RETENTION_DAYS` is the same
\* comparison the code makes on datetime values.
EXTENDS Integers, Sequences, FiniteSets, TLC

VARIABLES
    participants,              \* table "participants": rows [id, email, activity_id]
    audit_logs,                \* table "audit_logs": rows in insertion (id) order
    now,                       \* datetime.utcnow(), in days
    AUDIT_LOG_RETENTION_DAYS,  \* read once from the environment at start-up
    pc,                        \* per worker: the statement its request has reached
    req,                       \* per worker: the request it is serving
    last                       \* the most recently completed request and its response

vars == <<participants, audit_logs, now, AUDIT_LOG_RETENTION_DAYS, pc, req, last>>

\* ---------------------------------------------------------------- bounds
\* Number of signups to PriorActivity an earlier run of the service has
\* committed to activities.db before this run starts.
PriorSignups == 8
\* Requests that would write an audit row are not started once the table holds
\* this many rows.
MaxAuditLen == 2
\* The clock stops advancing at this day.
MaxTime == 2

\* Python's None.
None == "None"

\* ---------------------------------------------------------------- data
\* init_db's seed_data: name, max_participants, emails (description and
\* schedule are free text no handler reads back except get_activities).
seed_data ==
    << [name |-> "Chess Club", max_participants |-> 12,
        emails |-> <<"michael@mergington.edu", "daniel@mergington.edu">>],
       [name |-> "Programming Class", max_participants |-> 20,
        emails |-> <<"emma@mergington.edu", "sophia@mergington.edu">>],
       [name |-> "Gym Class", max_participants |-> 30,
        emails |-> <<"john@mergington.edu", "olivia@mergington.edu">>],
       [name |-> "Soccer Team", max_participants |-> 22,
        emails |-> <<"liam@mergington.edu", "noah@mergington.edu">>],
       [name |-> "Basketball Team", max_participants |-> 15,
        emails |-> <<"ava@mergington.edu", "mia@mergington.edu">>],
       [name |-> "Art Club", max_participants |-> 15,
        emails |-> <<"amelia@mergington.edu", "harper@mergington.edu">>],
       [name |-> "Drama Club", max_participants |-> 20,
        emails |-> <<"ella@mergington.edu", "scarlett@mergington.edu">>],
       [name |-> "Math Club", max_participants |-> 10,
        emails |-> <<"james@mergington.edu", "benjamin@mergington.edu">>],
       [name |-> "Debate Team", max_participants |-> 12,
        emails |-> <<"charlotte@mergington.edu", "henry@mergington.edu">>],
       [name |-> "Manga Maniacs", max_participants |-> 15,
        emails |-> << >>] >>

\* Activity ids are assigned by the store in insertion order, from 1.
ActivityIds == 1 .. Len(seed_data)

\* The static token table.
TOKENS ==
    [t \in {"student-token-123", "organizer-token-abc", "admin-token-xyz"} |->
        CASE t = "student-token-123" -> "student"
          [] t = "organizer-token-abc" -> "organizer"
          [] t = "admin-token-xyz" -> "admin"]

\* AUDIT_LOG_RETENTION_DAYS when the environment does not set it.
DefaultRetentionDays == 90

\* ---------------------------------------------------------------- inputs
\* Activity names requests carry: two seeded activities and an unknown one.
ActivityNames == {"Math Club", "Manga Maniacs", "Knitting Club"}
\* Emails requests carry: a seeded participant of Math Club and a newcomer.
Emails == {"james@mergington.edu", "new@x.edu"}
\* Credentials requests carry: none, the three configured tokens, an unknown one.
Credentials == {None, "student-token-123", "organizer-token-abc",
                "admin-token-xyz", "bogus-token"}
\* Credentials the audit endpoints are called with.
AuditCredentials == {None, "student-token-123", "admin-token-xyz"}
\* <<limit, offset>> of the audit listing: the defaults, the second row alone,
\* and both negative.
Pages == {<<100, 0>>, <<1, 1>>, <<-1, -1>>}
\* Values of the AUDIT_LOG_RETENTION_DAYS environment variable.
RetentionChoices == {-1, 0, 1}
\* Credentials the concurrent requests carry: anonymous, and an organizer.
ConcCredentials == {None, "organizer-token-abc"}
\* The workers that serve concurrent requests.
Procs == {"r1", "r2"}
\* The activity the earlier run's signups went to, and their emails.
PriorActivity == "Math Club"
PriorEmail(i) == "prior" \o ToString(i) \o "@mergington.edu"

\* ---------------------------------------------------------------- role resolver
\* get_current_role: no credentials or an unknown token resolve to None.
get_current_role(creds) ==
    IF creds = None THEN None
    ELSE IF creds \in DOMAIN TOKENS THEN TOKENS[creds] ELSE None

\* The signup gate that also turns away callers without a role.
SignupForbidden_deny_anonymous(role) == role # "student"

\* `if role and role != "student"`: the gate of signup_for_activity.
SignupForbidden(role) == role # None /\ role # "student"

\* `if role and role != "organizer"`: the gate of unregister_from_activity.
UnregisterForbidden(role) == role # None /\ role # "organizer"

\* `if role != "admin"`: the gate of the three audit endpoints.
AdminRequired(role) == role # "admin"

\* ---------------------------------------------------------------- store queries
\* db.query(Activity).filter(Activity.name == activity_name).first() found a row.
ActivityFound(activity_name) ==
    \E i \in ActivityIds : seed_data[i].name = activity_name

\* The id of the row that query returns (names are unique).
QueryActivity(activity_name) ==
    CHOOSE i \in ActivityIds : seed_data[i].name = activity_name

\* Participant(email=.., activity_id=..): a row not yet stored (no id).
ParticipantRow(email, activity_id) == [email |-> email, activity_id |-> activity_id]

\* The stored rows for (activity_id, email).
Matching(P, activity_id, email) ==
    {r \in P : r.activity_id = activity_id /\ r.email = email}

\* db.query(Participant).filter(activity_id == .., email == ..).first() is not None.
QueryParticipant(P, activity_id, email) == Matching(P, activity_id, email) # {}

\* What .first() gives when no row matches: no row, no id.
NoRow == [id |-> 0, email |-> None, activity_id |-> 0]

\* The row that query returns.
FirstParticipant(P, activity_id, email) ==
    IF Matching(P, activity_id, email) = {} THEN NoRow
    ELSE CHOOSE r \in Matching(P, activity_id, email) :
             \A x \in Matching(P, activity_id, email) : r.id <= x.id

\* The rows of one activity.
RowsOf(P, activity_id) == {r \in P : r.activity_id = activity_id}

\* `[p.email for p in a.participants]`: the emails of a set of rows, by id.
RECURSIVE EmailsById(_)
EmailsById(rows) ==
    IF rows = {} THEN << >>
    ELSE LET r == CHOOSE x \in rows : \A y \in rows : x.id <= y.id
         IN  <<r.email>> \o EmailsById(rows \ {r})

\* db.query(Participant).filter(activity_id == ..).count().
CountParticipants(P, activity_id) == Cardinality(RowsOf(P, activity_id))

\* AtCapacity with the comparison off by one (`>` for `>=`).
AtCapacity_gt(P, activity_id) ==
    CountParticipants(P, activity_id) > seed_data[activity_id].max_participants

\* `current_count >= act.max_participants`.
AtCapacity(P, activity_id) ==
    CountParticipants(P, activity_id) >= seed_data[activity_id].max_participants

\* The participants table without its unique constraint.
uq_participant_email_activity_off(P, row) == TRUE

\* UniqueConstraint("email", "activity_id"): may the store accept this row?
uq_participant_email_activity(P, row) == Matching(P, row.activity_id, row.email) = {}

\* The id the store gives a new row: one more than the largest id in the table.
NextParticipantId(P) ==
    IF P = {} THEN 1
    ELSE (CHOOSE m \in {r.id : r \in P} : \A r \in P : r.id <= m) + 1

\* The row as stored.
Stored(P, row) ==
    [id |-> NextParticipantId(P), email |-> row.email, activity_id |-> row.activity_id]

\* InsertParticipant made one atomic check-and-insert: the store also refuses
\* the row when the activity is full at commit time.
InsertParticipant_capacity_checked(P, row) ==
    IF uq_participant_email_activity(P, row) /\ ~AtCapacity(P, row.activity_id)
    THEN [ok |-> TRUE, table |-> P \cup {Stored(P, row)}]
    ELSE [ok |-> FALSE, table |-> P]

\* db.add(Participant(...)); db.commit(): the store accepts the row unless the
\* unique constraint rejects it (the commit then raises and nothing is written).
InsertParticipant(P, row) ==
    IF uq_participant_email_activity(P, row)
    THEN [ok |-> TRUE, table |-> P \cup {Stored(P, row)}]
    ELSE [ok |-> FALSE, table |-> P]

\* db.delete(part); db.commit(): DELETE ... WHERE id = part.id. A row already
\* gone makes the statement match nothing, which only warns.
DeleteParticipant(P, part_id) == {r \in P : r.id # part_id}

\* The number of participant rows init_db has inserted before activity i's.
RECURSIVE SeededBefore(_)
SeededBefore(i) ==
    IF i = 1 THEN 0 ELSE SeededBefore(i - 1) + Len(seed_data[i - 1].emails)

\* The rows init_db inserts, with ids in the order it adds them.
SeedParticipants ==
    UNION {{[id |-> SeededBefore(i) + j, email |-> seed_data[i].emails[j],
             activity_id |-> i] : j \in 1 .. Len(seed_data[i].emails)} :
              i \in ActivityIds}

\* ---------------------------------------------------------------- audit log
\* The id the store gives a new row: one more than the largest id in the table.
NextAuditId(log) ==
    IF log = << >> THEN 1
    ELSE LET ids == {log[i].id : i \in 1 .. Len(log)}
         IN  (CHOOSE m \in ids : \A x \in ids : x <= m) + 1

\* log_audit_event with user_email and activity_name passed in each other's place.
log_audit_event_swapped(log, t, action, user_email, activity_name, details) ==
    Append(log, [id |-> NextAuditId(log), timestamp |-> t, action |-> action,
                 user_email |-> activity_name, activity_name |-> user_email,
                 details |-> details, ip_address |-> None])

\* log_audit_event: one row appended, stamped with the current time.
log_audit_event(log, t, action, user_email, activity_name, details) ==
    Append(log, [id |-> NextAuditId(log), timestamp |-> t, action |-> action,
                 user_email |-> user_email, activity_name |-> activity_name,
                 details |-> details, ip_address |-> None])

\* Expired with the cutoff itself included (`<=` for `<`).
Expired_inclusive(row, t, retention) == row.timestamp <= t - retention

\* `AuditLog.timestamp < cutoff_date`, cutoff_date = utcnow() - timedelta(days=retention).
Expired(row, t, retention) == row.timestamp < t - retention

\* cleanup_old_audit_logs: the table it leaves.
cleanup_old_audit_logs(log, t, retention) ==
    IF retention <= 0 THEN log
    ELSE SelectSeq(log, LAMBDA row : ~Expired(row, t, retention))

\* order_by(AuditLog.timestamp.desc()): insertion sort by timestamp; rows of one
\* day keep the order of their true instants, the later id first.
RECURSIVE InsertDesc(_, _)
InsertDesc(sorted, row) ==
    IF sorted = << >> THEN <<row>>
    ELSE IF Head(sorted).timestamp > row.timestamp
              \/ (Head(sorted).timestamp = row.timestamp /\ Head(sorted).id > row.id)
         THEN <<Head(sorted)>> \o InsertDesc(Tail(sorted), row)
         ELSE <<row>> \o sorted

RECURSIVE OrderByTimestampDesc(_)
OrderByTimestampDesc(log) ==
    IF log = << >> THEN << >>
    ELSE InsertDesc(OrderByTimestampDesc(Tail(log)), Head(log))

\* .limit(limit).offset(offset) on a sorted result, as the store reads them:
\* a negative OFFSET is no offset, a negative LIMIT is no limit.
LimitOffset(rows, limit, offset) ==
    LET skip == IF offset < 0 THEN 0 ELSE offset
        stop == IF limit < 0 \/ skip + limit > Len(rows) THEN Len(rows) ELSE skip + limit
    IN  IF skip >= stop THEN << >> ELSE SubSeq(rows, skip + 1, stop)

\* `x or ""` of the CSV export.
OrEmpty(x) == IF x = None THEN "" ELSE x

CsvHeader == <<"ID", "Timestamp", "Action", "User Email", "Activity Name", "Details", "IP Address">>

\* One writer.writerow([...]) of export_audit_logs.
CsvRow(row) ==
    <<row.id, row.timestamp, row.action, row.user_email,
      OrEmpty(row.activity_name), OrEmpty(row.details), OrEmpty(row.ip_address)>>

\* group_by(AuditLog.action) with func.count(AuditLog.id).
ActionCounts(log) ==
    [a \in {log[i].action : i \in 1 .. Len(log)} |->
        Cardinality({i \in 1 .. Len(log) : log[i].action = a})]

\* ---------------------------------------------------------------- responses
Response(op, activity_name, email, creds, status_code, detail, body) ==
    [op |-> op, activity_name |-> activity_name, email |-> email, creds |-> creds,
     status_code |-> status_code, detail |-> detail, body |-> body]

NoRequest == Response("none", None, None, None, 0, None, None)

\* A worker serving no request; a worker serving one: its arguments and, once
\* unregister has looked its row up, that row's id (0 before).
Idle == [activity_name |-> None, email |-> None, creds |-> None, part |-> 0]
Serving(activity_name, email, creds) ==
    [activity_name |-> activity_name, email |-> email, creds |-> creds, part |-> 0]

\* ---------------------------------------------------------------- roster service
\* SignupCheck with the capacity test made before the already-signed-up test.
SignupCheck_capacity_first(P, activity_name, email, role) ==
    IF SignupForbidden(role) THEN "Forbidden"
    ELSE IF ~ActivityFound(activity_name) THEN "NotFound"
    ELSE IF AtCapacity(P, QueryActivity(activity_name)) THEN "CapacityExceeded"
    ELSE IF QueryParticipant(P, QueryActivity(activity_name), email) THEN "Conflict"
    ELSE "ok"

\* SignupCheck without the already-signed-up test.
SignupCheck_no_duplicate_check(P, activity_name, email, role) ==
    IF SignupForbidden(role) THEN "Forbidden"
    ELSE IF ~ActivityFound(activity_name) THEN "NotFound"
    ELSE IF AtCapacity(P, QueryActivity(activity_name)) THEN "CapacityExceeded"
    ELSE "ok"

\* The checks of signup_for_activity, in the order the handler makes them.
SignupCheck(P, activity_name, email, role) ==
    IF SignupForbidden(role) THEN "Forbidden"
    ELSE IF ~ActivityFound(activity_name) THEN "NotFound"
    ELSE IF QueryParticipant(P, QueryActivity(activity_name), email) THEN "Conflict"
    ELSE IF AtCapacity(P, QueryActivity(activity_name)) THEN "CapacityExceeded"
    ELSE "ok"

\* The HTTPException each failed check raises, and the success message.
SignupStatusCode(outcome) ==
    CASE outcome = "Forbidden" -> 403
      [] outcome = "NotFound" -> 404
      [] outcome = "Conflict" -> 400
      [] outcome = "CapacityExceeded" -> 400
      [] outcome = "IntegrityError" -> 500
      [] outcome = "ok" -> 200

SignupDetail(outcome, activity_name, email) ==
    CASE outcome = "Forbidden" -> "Only students can sign up"
      [] outcome = "NotFound" -> "Activity not found"
      [] outcome = "Conflict" -> "Student is already signed up"
      [] outcome = "CapacityExceeded" -> "Activity is at full capacity"
      [] outcome = "IntegrityError" -> "Internal Server Error"
      [] outcome = "ok" -> "Signed up " \o email \o " for " \o activity_name

SignupResponse(outcome, activity_name, email, creds) ==
    Response("signup", activity_name, email, creds, SignupStatusCode(outcome),
             SignupDetail(outcome, activity_name, email), None)

\* UnregisterCheck without the is-signed-up test.
UnregisterCheck_no_lookup(P, activity_name, email, role) ==
    IF UnregisterForbidden(role) THEN "Forbidden"
    ELSE IF ~ActivityFound(activity_name) THEN "NotFound"
    ELSE "ok"

\* The checks of unregister_from_activity, in the order the handler makes them.
UnregisterCheck(P, activity_name, email, role) ==
    IF UnregisterForbidden(role) THEN "Forbidden"
    ELSE IF ~ActivityFound(activity_name) THEN "NotFound"
    ELSE IF ~QueryParticipant(P, QueryActivity(activity_name), email) THEN "NotRegistered"
    ELSE "ok"

UnregisterStatusCode(outcome) ==
    CASE outcome = "Forbidden" -> 403
      [] outcome = "NotFound" -> 404
      [] outcome = "NotRegistered" -> 400
      [] outcome = "ok" -> 200

UnregisterDetail(outcome, activity_name, email) ==
    CASE outcome = "Forbidden" -> "Only organizers can manage registrations"
      [] outcome = "NotFound" -> "Activity not found"
      [] outcome = "NotRegistered" -> "Student is not signed up for this activity"
      [] outcome = "ok" -> "Unregistered " \o email \o " from " \o activity_name

UnregisterResponse(outcome, activity_name, email, creds) ==
    Response("unregister", activity_name, email, creds, UnregisterStatusCode(outcome),
             UnregisterDetail(outcome, activity_name, email), None)

\* The participants table a whole signup request leaves behind.
SignupTable(P, activity_name, email, role) ==
    IF SignupCheck(P, activity_name, email, role) = "ok"
    THEN InsertParticipant(P, ParticipantRow(email, QueryActivity(activity_name))).table
    ELSE P

\* The participants table after the earlier run's first k signups, made one
\* at a time by anonymous callers on top of the seed.
RECURSIVE PriorParticipants(_)
PriorParticipants(k) ==
    IF k = 0 THEN SeedParticipants
    ELSE SignupTable(PriorParticipants(k - 1), PriorActivity, PriorEmail(k), None)

\* ---------------------------------------------------------------- initial states
\* The store as a run finds it after init_db: freshly seeded (k = 0), or left
\* by an earlier run (init_db then seeds nothing) that committed k signups and
\* whose audit rows have since been purged. The environment leaves the
\* retention period at its default.
Init ==
    /\ \E k \in 0 .. PriorSignups : participants = PriorParticipants(k)
    /\ audit_logs = << >>
    /\ now = 0
    /\ AUDIT_LOG_RETENTION_DAYS = DefaultRetentionDays
    /\ pc = [p \in Procs |-> "idle"]
    /\ req = [p \in Procs |-> Idle]
    /\ last = NoRequest

\* The freshly seeded store, under each setting of the retention period.
InitAudit ==
    /\ participants = SeedParticipants
    /\ audit_logs = << >>
    /\ now = 0
    /\ AUDIT_LOG_RETENTION_DAYS \in RetentionChoices
    /\ pc = [p \in Procs |-> "idle"]
    /\ req = [p \in Procs |-> Idle]
    /\ last = NoRequest

\* ---------------------------------------------------------------- handlers
\* POST /activities/{activity_name}/signup, served without interleaving.
signup_for_activity(activity_name, email, creds) ==
    LET outcome == SignupCheck(participants, activity_name, email, get_current_role(creds))
        ins == InsertParticipant(participants,
                                 ParticipantRow(email, QueryActivity(activity_name)))
    IN  /\ IF outcome # "ok"
           THEN /\ last' = SignupResponse(outcome, activity_name, email, creds)
                /\ UNCHANGED <<participants, audit_logs>>
           ELSE /\ Len(audit_logs) < MaxAuditLen
                /\ participants' = ins.table
                /\ IF ins.ok
                   THEN /\ audit_logs' =
                               log_audit_event(audit_logs, now, "signup", email,
                                               activity_name,
                                               "Student signed up for " \o activity_name)
                        /\ last' = SignupResponse("ok", activity_name, email, creds)
                   ELSE /\ last' = SignupResponse("IntegrityError", activity_name,
                                                  email, creds)
                        /\ UNCHANGED audit_logs
        /\ UNCHANGED <<now, AUDIT_LOG_RETENTION_DAYS, pc, req>>

\* DELETE /activities/{activity_name}/unregister.
unregister_from_activity(activity_name, email, creds) ==
    LET outcome == UnregisterCheck(participants, activity_name, email, get_current_role(creds))
    IN  /\ IF outcome = "ok"
           THEN /\ Len(audit_logs) < MaxAuditLen
                /\ participants' =
                       DeleteParticipant(participants,
                           FirstParticipant(participants, QueryActivity(activity_name),
                                            email).id)
                /\ audit_logs' =
                       log_audit_event(audit_logs, now, "unregister", email, activity_name,
                                       "Student unregistered from " \o activity_name)
           ELSE UNCHANGED <<participants, audit_logs>>
        /\ last' = UnregisterResponse(outcome, activity_name, email, creds)
        /\ UNCHANGED <<now, AUDIT_LOG_RETENTION_DAYS, pc, req>>

\* GET /activities.
get_activities ==
    /\ last' = Response("get_activities", None, None, None, 200, None,
                        [i \in ActivityIds |->
                            [name |-> seed_data[i].name,
                             max_participants |-> seed_data[i].max_participants,
                             participants |-> EmailsById(RowsOf(participants, i))]])
    /\ UNCHANGED <<participants, audit_logs, now, AUDIT_LOG_RETENTION_DAYS, pc, req>>

\* GET /admin/audit-logs.
get_audit_logs(creds, limit, offset) ==
    IF AdminRequired(get_current_role(creds))
    THEN /\ last' = Response("get_audit_logs", None, None, creds, 403,
                             "Admin access required", None)
         /\ UNCHANGED <<participants, audit_logs, now, AUDIT_LOG_RETENTION_DAYS, pc, req>>
    ELSE LET kept == cleanup_old_audit_logs(audit_logs, now, AUDIT_LOG_RETENTION_DAYS)
         IN  /\ audit_logs' = kept
             /\ last' = Response("get_audit_logs", None, None, creds, 200, None,
                                 [total |-> Len(kept), limit |-> limit, offset |-> offset,
                                  logs |-> LimitOffset(OrderByTimestampDesc(kept),
                                                       limit, offset)])
             /\ UNCHANGED <<participants, now, AUDIT_LOG_RETENTION_DAYS, pc, req>>

\* GET /admin/audit-logs/export.
export_audit_logs(creds) ==
    /\ IF AdminRequired(get_current_role(creds))
       THEN last' = Response("export_audit_logs", None, None, creds, 403,
                             "Admin access required", None)
       ELSE last' = Response("export_audit_logs", None, None, creds, 200, None,
                             [header |-> CsvHeader,
                              rows |-> [i \in 1 .. Len(audit_logs) |->
                                           CsvRow(OrderByTimestampDesc(audit_logs)[i])]])
    /\ UNCHANGED <<participants, audit_logs, now, AUDIT_LOG_RETENTION_DAYS, pc, req>>

\* GET /admin/audit-logs/stats.
get_audit_stats(creds) ==
    /\ IF AdminRequired(get_current_role(creds))
       THEN last' = Response("get_audit_stats", None, None, creds, 403,
                             "Admin access required", None)
       ELSE last' = Response("get_audit_stats", None, None, creds, 200, None,
                             [total_logs |-> Len(audit_logs),
                              action_counts |-> ActionCounts(audit_logs),
                              retention_days |-> AUDIT_LOG_RETENTION_DAYS,
                              oldest_log |->
                                  IF audit_logs = << >> THEN << >>
                                  ELSE <<OrderByTimestampDesc(audit_logs)[Len(audit_logs)]
                                             .timestamp>>,
                              newest_log |->
                                  IF audit_logs = << >> THEN << >>
                                  ELSE <<OrderByTimestampDesc(audit_logs)[1].timestamp>>])
    /\ UNCHANGED <<participants, audit_logs, now, AUDIT_LOG_RETENTION_DAYS, pc, req>>

\* The clock advances by a day.
Tick ==
    /\ now < MaxTime
    /\ now' = now + 1
    /\ UNCHANGED <<participants, audit_logs, AUDIT_LOG_RETENTION_DAYS, pc, req, last>>

\* The roster service, one request at a time.
Next ==
    \/ \E a \in ActivityNames, e \in Emails, c \in Credentials : signup_for_activity(a, e, c)
    \/ \E a \in ActivityNames, e \in Emails, c \in Credentials : unregister_from_activity(a, e, c)
    \/ get_activities

Spec == Init /\ [][Next]_vars

\* The audit service: anonymous callers fill the log, the clock advances, and
\* callers of every kind read it.
NextAudit ==
    \/ \E a \in ActivityNames, e \in Emails : signup_for_activity(a, e, None)
    \/ \E a \in ActivityNames, e \in Emails : unregister_from_activity(a, e, None)
    \/ \E c \in AuditCredentials, page \in Pages : get_audit_logs(c, page[1], page[2])
    \/ \E c \in AuditCredentials : export_audit_logs(c)
    \/ \E c \in AuditCredentials : get_audit_stats(c)
    \/ Tick

SpecAudit == InitAudit /\ [][NextAudit]_vars

\* ---------------------------------------------------------------- concurrent signups
\* Requests served by several workers at once. Each query reads the
\* committed tables at the moment it runs; each commit is one atomic write.

\* Lines 209-215: the role gate and the activity lookup.
SignupBegin(p, activity_name, email, creds) ==
    /\ pc[p] = "idle"
    /\ Len(audit_logs) < MaxAuditLen
    /\ IF SignupForbidden(get_current_role(creds))
       THEN /\ last' = SignupResponse("Forbidden", activity_name, email, creds)
            /\ UNCHANGED <<pc, req>>
       ELSE IF ~ActivityFound(activity_name)
       THEN /\ last' = SignupResponse("NotFound", activity_name, email, creds)
            /\ UNCHANGED <<pc, req>>
       ELSE /\ pc' = [pc EXCEPT ![p] = "exists"]
            /\ req' = [req EXCEPT ![p] = Serving(activity_name, email, creds)]
            /\ UNCHANGED last
    /\ UNCHANGED <<participants, audit_logs, now, AUDIT_LOG_RETENTION_DAYS>>

\* Lines 218-220: the already-signed-up query.
SignupCheckExists(p) ==
    /\ pc[p] = "exists"
    /\ IF QueryParticipant(participants, QueryActivity(req[p].activity_name), req[p].email)
       THEN /\ last' = SignupResponse("Conflict", req[p].activity_name, req[p].email,
                                      req[p].creds)
            /\ pc' = [pc EXCEPT ![p] = "idle"]
            /\ req' = [req EXCEPT ![p] = Idle]
       ELSE /\ pc' = [pc EXCEPT ![p] = "capacity"]
            /\ UNCHANGED <<req, last>>
    /\ UNCHANGED <<participants, audit_logs, now, AUDIT_LOG_RETENTION_DAYS>>

\* Lines 223-225: the count query and the capacity test.
SignupCheckCapacity(p) ==
    /\ pc[p] = "capacity"
    /\ IF AtCapacity(participants, QueryActivity(req[p].activity_name))
       THEN /\ last' = SignupResponse("CapacityExceeded", req[p].activity_name,
                                      req[p].email, req[p].creds)
            /\ pc' = [pc EXCEPT ![p] = "idle"]
            /\ req' = [req EXCEPT ![p] = Idle]
       ELSE /\ pc' = [pc EXCEPT ![p] = "insert"]
            /\ UNCHANGED <<req, last>>
    /\ UNCHANGED <<participants, audit_logs, now, AUDIT_LOG_RETENTION_DAYS>>

\* Lines 227-228: the insert and its commit. A commit the unique constraint
\* rejects raises out of the handler: no row, no audit entry, a 500.
SignupInsert(p) ==
    LET ins == InsertParticipant(participants,
                   ParticipantRow(req[p].email, QueryActivity(req[p].activity_name)))
    IN  /\ pc[p] = "insert"
        /\ participants' = ins.table
        /\ IF ins.ok
           THEN /\ pc' = [pc EXCEPT ![p] = "audit"]
                /\ UNCHANGED <<req, last>>
           ELSE /\ last' = SignupResponse("IntegrityError", req[p].activity_name,
                                          req[p].email, req[p].creds)
                /\ pc' = [pc EXCEPT ![p] = "idle"]
                /\ req' = [req EXCEPT ![p] = Idle]
        /\ UNCHANGED <<audit_logs, now, AUDIT_LOG_RETENTION_DAYS>>

\* Lines 231-233: the audit row and the response.
SignupLogAudit(p) ==
    /\ pc[p] = "audit"
    /\ audit_logs' = log_audit_event(audit_logs, now, "signup", req[p].email,
                                     req[p].activity_name,
                                     "Student signed up for " \o req[p].activity_name)
    /\ last' = SignupResponse("ok", req[p].activity_name, req[p].email, req[p].creds)
    /\ pc' = [pc EXCEPT ![p] = "idle"]
    /\ req' = [req EXCEPT ![p] = Idle]
    /\ UNCHANGED <<participants, now, AUDIT_LOG_RETENTION_DAYS>>

\* unregister_from_activity served by a worker, statement by statement.

\* Lines 242-248: the role gate and the activity lookup.
UnregisterBegin(p, activity_name, email, creds) ==
    /\ pc[p] = "idle"
    /\ Len(audit_logs) < MaxAuditLen
    /\ IF UnregisterForbidden(get_current_role(creds))
       THEN /\ last' = UnregisterResponse("Forbidden", activity_name, email, creds)
            /\ UNCHANGED <<pc, req>>
       ELSE IF ~ActivityFound(activity_name)
       THEN /\ last' = UnregisterResponse("NotFound", activity_name, email, creds)
            /\ UNCHANGED <<pc, req>>
       ELSE /\ pc' = [pc EXCEPT ![p] = "lookup"]
            /\ req' = [req EXCEPT ![p] = Serving(activity_name, email, creds)]
            /\ UNCHANGED last
    /\ UNCHANGED <<participants, audit_logs, now, AUDIT_LOG_RETENTION_DAYS>>

\* Lines 250-252: the participant lookup.
UnregisterLookup(p) ==
    /\ pc[p] = "lookup"
    /\ IF ~QueryParticipant(participants, QueryActivity(req[p].activity_name),
                            req[p].email)
       THEN /\ last' = UnregisterResponse("NotRegistered", req[p].activity_name,
                                          req[p].email, req[p].creds)
            /\ pc' = [pc EXCEPT ![p] = "idle"]
            /\ req' = [req EXCEPT ![p] = Idle]
       ELSE /\ pc' = [pc EXCEPT ![p] = "delete"]
            /\ req' = [req EXCEPT ![p].part =
                          FirstParticipant(participants,
                                           QueryActivity(req[p].activity_name),
                                           req[p].email).id]
            /\ UNCHANGED last
    /\ UNCHANGED <<participants, audit_logs, now, AUDIT_LOG_RETENTION_DAYS>>

\* Lines 254-255: the delete and its commit.
UnregisterDelete(p) ==
    /\ pc[p] = "delete"
    /\ participants' = DeleteParticipant(participants, req[p].part)
    /\ pc' = [pc EXCEPT ![p] = "unregister_audit"]
    /\ UNCHANGED <<audit_logs, now, AUDIT_LOG_RETENTION_DAYS, req, last>>

\* Lines 258-260: the audit row and the response.
UnregisterLogAudit(p) ==
    /\ pc[p] = "unregister_audit"
    /\ audit_logs' = log_audit_event(audit_logs, now, "unregister", req[p].email,
                                     req[p].activity_name,
                                     "Student unregistered from " \o req[p].activity_name)
    /\ last' = UnregisterResponse("ok", req[p].activity_name, req[p].email, req[p].creds)
    /\ pc' = [pc EXCEPT ![p] = "idle"]
    /\ req' = [req EXCEPT ![p] = Idle]
    /\ UNCHANGED <<participants, now, AUDIT_LOG_RETENTION_DAYS>>

\* Signups and unregisters interleave statement by statement.
NextConc ==
    \/ \E p \in Procs, a \in ActivityNames, e \in Emails, c \in ConcCredentials :
           SignupBegin(p, a, e, c)
    \/ \E p \in Procs : SignupCheckExists(p)
    \/ \E p \in Procs : SignupCheckCapacity(p)
    \/ \E p \in Procs : SignupInsert(p)
    \/ \E p \in Procs : SignupLogAudit(p)
    \/ \E p \in Procs, a \in ActivityNames, e \in Emails, c \in ConcCredentials :
           UnregisterBegin(p, a, e, c)
    \/ \E p \in Procs : UnregisterLookup(p)
    \/ \E p \in Procs : UnregisterDelete(p)
    \/ \E p \in Procs : UnregisterLogAudit(p)

\* The freshly seeded store, or the store the earlier run left after all of
\* its signups.
InitConc ==
    /\ \E k \in {0, PriorSignups} : participants = PriorParticipants(k)
    /\ audit_logs = << >>
    /\ now = 0
    /\ AUDIT_LOG_RETENTION_DAYS = DefaultRetentionDays
    /\ pc = [p \in Procs |-> "idle"]
    /\ req = [p \in Procs |-> Idle]
    /\ last = NoRequest

SpecConc == InitConc /\ [][NextConc]_vars

\* ================================================================ properties
\* The error taxonomy, read off a response.
IsForbidden(r) == r.status_code = 403
IsNotFound(r) == r.status_code = 404
IsConflict(r) == r.status_code = 400 /\ r.detail = "Student is already signed up"
IsCapacityExceeded(r) == r.status_code = 400 /\ r.detail = "Activity is at full capacity"
IsNotRegistered(r) ==
    r.status_code = 400 /\ r.detail = "Student is not signed up for this activity"
IsSuccess(r) == r.status_code = 200

\* The role a credential stands for, read off the token table.
RoleOf(creds) == IF creds \in DOMAIN TOKENS THEN TOKENS[creds] ELSE None

\* A seeded activity of that name exists; its id; its capacity.
Known(a) == \E i \in ActivityIds : seed_data[i].name = a
IdOf(a) == CHOOSE i \in ActivityIds : seed_data[i].name = a
MaxOf(i) == seed_data[i].max_participants

\* How many rows the table holds for (email, activity); for the activity.
Copies(P, e, i) == Cardinality({r \in P : r.email = e /\ r.activity_id = i})
OnRoster(P, e, i) == Copies(P, e, i) > 0
RosterSize(P, i) == Cardinality({r \in P : r.activity_id = i})

\* A step is the signup (unregister, listing, export, stats) handler serving
\* the request recorded in the response it leaves.
SignedUp ==
    /\ last'.op = "signup"
    /\ signup_for_activity(last'.activity_name, last'.email, last'.creds)
Unregistered ==
    /\ last'.op = "unregister"
    /\ unregister_from_activity(last'.activity_name, last'.email, last'.creds)
Listed ==
    /\ last'.op = "get_audit_logs" /\ IsSuccess(last')
    /\ get_audit_logs(last'.creds, last'.body.limit, last'.body.offset)
Exported ==
    /\ last'.op = "export_audit_logs" /\ IsSuccess(last')
    /\ export_audit_logs(last'.creds)
Counted ==
    /\ last'.op = "get_audit_stats" /\ IsSuccess(last')
    /\ get_audit_stats(last'.creds)

\* ---------------------------------------------------------------- C1
\* C1: with requests served one at a time from the seeded store, no activity
\* ever holds more participants than its max_participants.
C1_CapacityRespected ==
    \A i \in ActivityIds : RosterSize(participants, i) <= MaxOf(i)

\* A signup of this run has just filled Math Club to its capacity.
C1_Witness ==
    /\ last.op = "signup" /\ IsSuccess(last) /\ last.activity_name = "Math Club"
    /\ RosterSize(participants, IdOf("Math Club")) = MaxOf(IdOf("Math Club"))
    /\ OnRoster(participants, last.email, IdOf("Math Club"))

\* ---------------------------------------------------------------- C2
\* The signup just served found its activity holding exactly max_participants.
SignedUpAtCapacity ==
    /\ SignedUp
    /\ Known(last'.activity_name)
    /\ RosterSize(participants, IdOf(last'.activity_name)) =
           MaxOf(IdOf(last'.activity_name))

\* C2 as stated: a signup on an activity whose count equals max_participants
\* fails with CapacityExceeded for every role and every email, also an email
\* already on that roster.
C2_AlwaysCapacityExceeded ==
    [][SignedUpAtCapacity => IsCapacityExceeded(last')]_vars

\* C2 amended: on an activity whose count equals max_participants, a signup
\* fails with CapacityExceeded when the caller passes the role gate (no role
\* or student) and the email is not on that roster; a caller resolved to
\* organizer or admin gets Forbidden, and an email already on the roster gets
\* Conflict. In each case the tables are left as they were.
C2_CapacityExceededAfterGateAndDuplicate ==
    [][SignedUpAtCapacity =>
         LET a == last'.activity_name
             e == last'.email
             role == RoleOf(last'.creds)
         IN  /\ role \in {"organizer", "admin"} => IsForbidden(last')
             /\ (role \in {None, "student"} /\ OnRoster(participants, e, IdOf(a)))
                    => IsConflict(last')
             /\ (role \in {None, "student"} /\ ~OnRoster(participants, e, IdOf(a)))
                    => IsCapacityExceeded(last')
             /\ participants' = participants
             /\ audit_logs' = audit_logs]_vars

\* A newcomer has just been refused on a full Math Club.
C2_Witness ==
    /\ last.op = "signup" /\ IsCapacityExceeded(last)
    /\ RosterSize(participants, IdOf(last.activity_name)) = MaxOf(IdOf(last.activity_name))
    /\ ~OnRoster(participants, last.email, IdOf(last.activity_name))

\* ---------------------------------------------------------------- C3
\* A row the purge would delete at time t.
Stale(row, t, retention) == retention > 0 /\ row.timestamp < t - retention

NoStaleRow(log) ==
    \A i \in 1 .. Len(log) : ~Stale(log[i], now, AUDIT_LOG_RETENTION_DAYS)

\* C3: every audit read by an admin (list, export, stats) purges first: with
\* retention_days > 0 no expired row is returned by list, emitted by export
\* or counted by stats, and none is left in the store after the read.
C3_EveryReadPurgesFirst ==
    [][/\ Listed => NoStaleRow(audit_logs') /\ NoStaleRow(last'.body.logs)
       /\ Exported
              => /\ NoStaleRow(audit_logs')
                 /\ \A i \in 1 .. Len(last'.body.rows) :
                        ~(/\ AUDIT_LOG_RETENTION_DAYS > 0
                          /\ last'.body.rows[i][2] < now - AUDIT_LOG_RETENTION_DAYS)
       /\ Counted
              => /\ NoStaleRow(audit_logs')
                 /\ last'.body.total_logs =
                        Cardinality({i \in 1 .. Len(audit_logs) :
                                        ~Stale(audit_logs[i], now,
                                               AUDIT_LOG_RETENTION_DAYS)})]_vars

\* ---------------------------------------------------------------- C4
\* The log after one more row for (action, email, activity): the old rows
\* untouched and in place, the new row last.
GrewByOne(old, new, action, e, a) ==
    /\ Len(new) = Len(old) + 1
    /\ \A i \in 1 .. Len(old) : new[i] = old[i]
    /\ new[Len(new)].action = action
    /\ new[Len(new)].user_email = e
    /\ new[Len(new)].activity_name = a

\* C4: each successful signup or unregister adds exactly one audit row whose
\* action, user_email and activity_name are those of the request; a failed one
\* adds none; neither ever removes or alters an existing row.
C4_AuditGrowsByOne ==
    [][/\ SignedUp
              => IF IsSuccess(last')
                 THEN GrewByOne(audit_logs, audit_logs', "signup",
                                last'.email, last'.activity_name)
                 ELSE audit_logs' = audit_logs
       /\ Unregistered
              => IF IsSuccess(last')
                 THEN GrewByOne(audit_logs, audit_logs', "unregister",
                                last'.email, last'.activity_name)
                 ELSE audit_logs' = audit_logs]_vars

\* A signup and then an unregister have each left their row.
C4_Witness ==
    /\ last.op = "unregister" /\ IsSuccess(last)
    /\ Len(audit_logs) = 2
    /\ audit_logs[1].action = "signup"
    /\ audit_logs[2].action = "unregister"
    /\ audit_logs[2].user_email = last.email
    /\ audit_logs[2].activity_name = last.activity_name

\* ---------------------------------------------------------------- C5
\* C5 as stated: a signup for an (email, activity) pair already on the roster
\* fails with Conflict, whoever the caller is, and leaves every roster and the
\* audit log as they were.
C5_AlwaysConflict ==
    [][(/\ SignedUp
        /\ Known(last'.activity_name)
        /\ OnRoster(participants, last'.email, IdOf(last'.activity_name)))
       => /\ IsConflict(last')
          /\ participants' = participants
          /\ audit_logs' = audit_logs]_vars

\* C5 amended: a signup for an (email, activity) pair already on the roster
\* fails with Conflict when the caller passes the role gate (no role or
\* student); a caller resolved to organizer or admin gets Forbidden. In both
\* cases every roster and the audit log are left as they were.
C5_DuplicateSignupConflict ==
    [][(/\ SignedUp
        /\ Known(last'.activity_name)
        /\ OnRoster(participants, last'.email, IdOf(last'.activity_name)))
       => /\ RoleOf(last'.creds) \in {None, "student"} => IsConflict(last')
          /\ RoleOf(last'.creds) \in {"organizer", "admin"} => IsForbidden(last')
          /\ participants' = participants
          /\ audit_logs' = audit_logs]_vars

\* The same signup made twice: the pair is on the roster once, the log holds
\* its one row, and the second call has just been refused.
C5_Witness ==
    /\ last.op = "signup" /\ IsConflict(last)
    /\ Copies(participants, last.email, IdOf(last.activity_name)) = 1
    /\ \E i \in 1 .. Len(audit_logs) :
           /\ audit_logs[i].action = "signup"
           /\ audit_logs[i].user_email = last.email
           /\ audit_logs[i].activity_name = last.activity_name

\* ---------------------------------------------------------------- C6
\* C6 as stated: an unregister for an email not on the roster of an existing
\* activity fails with NotRegistered, whoever the caller is, and leaves every
\* roster and the audit log as they were.
C6_AlwaysNotRegistered ==
    [][(/\ Unregistered
        /\ Known(last'.activity_name)
        /\ ~OnRoster(participants, last'.email, IdOf(last'.activity_name)))
       => /\ IsNotRegistered(last')
          /\ participants' = participants
          /\ audit_logs' = audit_logs]_vars

\* C6 amended: an unregister for an email not on the roster of an existing
\* activity fails with NotRegistered when the caller passes the role gate (no
\* role or organizer); a caller resolved to student or admin gets Forbidden.
\* In both cases every roster and the audit log are left as they were.
C6_UnregisterAbsentNotRegistered ==
    [][(/\ Unregistered
        /\ Known(last'.activity_name)
        /\ ~OnRoster(participants, last'.email, IdOf(last'.activity_name)))
       => /\ RoleOf(last'.creds) \in {None, "organizer"} => IsNotRegistered(last')
          /\ RoleOf(last'.creds) \in {"student", "admin"} => IsForbidden(last')
          /\ participants' = participants
          /\ audit_logs' = audit_logs]_vars

\* An unregister of an email that had been unregistered before has just been
\* refused.
C6_Witness ==
    /\ last.op = "unregister" /\ IsNotRegistered(last)
    /\ ~OnRoster(participants, last.email, IdOf(last.activity_name))
    /\ \E i \in 1 .. Len(audit_logs) :
           /\ audit_logs[i].action = "unregister"
           /\ audit_logs[i].user_email = last.email
           /\ audit_logs[i].activity_name = last.activity_name

\* ---------------------------------------------------------------- C7
\* C7: the purge (run by the admin listing) removes exactly the rows whose
\* timestamp is strictly older than now - retention_days and keeps every
\* other row, in order, a row exactly at the cutoff included; with
\* retention_days zero or negative it removes nothing.
C7_PurgeExactlyExpired ==
    [][Listed
       => /\ AUDIT_LOG_RETENTION_DAYS > 0
                 => audit_logs' =
                        SelectSeq(audit_logs,
                                  LAMBDA row :
                                      ~(row.timestamp < now - AUDIT_LOG_RETENTION_DAYS))
          /\ AUDIT_LOG_RETENTION_DAYS <= 0 => audit_logs' = audit_logs
          /\ last'.body.total = Len(audit_logs')]_vars

\* A purge has just deleted the first row ever written (the oldest row left
\* has a later id) and kept a row written exactly at the cutoff.
C7_Witness ==
    /\ last.op = "get_audit_logs" /\ IsSuccess(last)
    /\ AUDIT_LOG_RETENTION_DAYS > 0
    /\ last.body.total = 1
    /\ Len(audit_logs) = 1
    /\ audit_logs[1].id > 1
    /\ audit_logs[1].timestamp = now - AUDIT_LOG_RETENTION_DAYS

\* ---------------------------------------------------------------- C8
\* C8: the role gate of signup and unregister rejects a request with Forbidden
\* exactly when its token resolves to a role other than the required one
\* (student for signup, organizer for unregister); no token or an unknown
\* token resolves to no role and passes. A Forbidden request changes no
\* roster and no audit row.
C8_GatePermissiveByDefault ==
    [][/\ \A c \in Credentials : get_current_role(c) = RoleOf(c)
       /\ SignedUp
              => /\ IsForbidden(last') <=> RoleOf(last'.creds) \in {"organizer", "admin"}
                 /\ IsForbidden(last')
                        => participants' = participants /\ audit_logs' = audit_logs
       /\ Unregistered
              => /\ IsForbidden(last') <=> RoleOf(last'.creds) \in {"student", "admin"}
                 /\ IsForbidden(last')
                        => participants' = participants /\ audit_logs' = audit_logs]_vars

\* A caller with an unknown token has just signed someone up.
C8_Witness ==
    /\ last.op = "signup" /\ IsSuccess(last)
    /\ last.creds = "bogus-token"
    /\ OnRoster(participants, last.email, IdOf(last.activity_name))

\* ---------------------------------------------------------------- C9
\* C9: the capacity test and the insert are separate steps: a signup that has
\* passed the test inserts its row whatever the roster holds by then, also
\* when the roster already holds max_participants, so interleaved signups
\* take a roster past its capacity.
C9_InsertDoesNotRecheckCapacity ==
    [][\A p \in Procs :
         (/\ SignupInsert(p)
          /\ ~OnRoster(participants, req[p].email, IdOf(req[p].activity_name)))
         => /\ RosterSize(participants', IdOf(req[p].activity_name)) =
                   RosterSize(participants, IdOf(req[p].activity_name)) + 1
            /\ pc'[p] = "audit"]_vars

\* Two signups with different emails both passed the capacity test on a
\* roster of max_participants - 1 and both committed.
C9_Witness ==
    \E i \in ActivityIds :
        /\ RosterSize(participants, i) = MaxOf(i) + 1
        /\ \A p \in Procs : pc[p] = "audit" /\ IdOf(req[p].activity_name) = i
        /\ \A p, q \in Procs : p # q => req[p].email # req[q].email

\* ---------------------------------------------------------------- C10
\* C10: under every interleaving no roster holds the same email twice; a
\* signup whose insert finds its (email, activity) row already committed fails
\* and adds neither a participant nor an audit row.
C10_UniqueUnderInterleaving ==
    /\ [](\A r, x \in participants :
              (r.email = x.email /\ r.activity_id = x.activity_id) => r = x)
    /\ [][\A p \in Procs :
            (/\ SignupInsert(p)
             /\ OnRoster(participants, req[p].email, IdOf(req[p].activity_name)))
            => /\ participants' = participants
               /\ audit_logs' = audit_logs
               /\ last'.status_code = 500
               /\ last'.email = req[p].email
               /\ pc'[p] = "idle"]_vars

\* Two signups for the same pair both passed the existence test; the second
\* commit has just been rejected.
C10_Witness ==
    /\ last.op = "signup" /\ last.status_code = 500
    /\ Copies(participants, last.email, IdOf(last.activity_name)) = 1

====
